---- MODULE Spec2Model ----
(***************************************************************************)
(* Model of scripts/collect_plate_formats.py: the start-up checks of main, *)
(* the per-country loop (skip, fetch, dry-run, extraction, incremental     *)
(* write), the final write, fetch_article_wikitext with its single         *)
(* rate-limit retry, and the code-fence stripping and JSON parse of        *)
(* extract_with_openai.  Texts are sequences of one-character strings.     *)
(***************************************************************************)
EXTENDS Integers, Sequences, FiniteSets, TLC

VARIABLES
    dry_run,        \* args.dry_run
    country,        \* args.country ("None" when the flag is not given)
    api_key,        \* TRUE iff OPENAI_API_KEY is set and non-empty
    disk,           \* the file <output-dir>/metadata/plate_formats.json
    disk0,          \* the same file as it was when the process started
    pc,             \* position of main
    error,          \* what ended main early: message or uncaught exception
    countries,      \* the ISO codes the loop iterates over, in dict order
    idx,            \* position of the loop in countries
    metadata,       \* the in-memory document
    success, failed, skipped,
    resp,           \* fetch_article_wikitext: the current response
    firstStatus,    \* fetch_article_wikitext: status of the first response
    callGets,       \* fetch_article_wikitext: GETs issued by the current call
    sleeps,         \* fetch_article_wikitext: time.sleep durations of the call
    wikitext,       \* main: what fetch_article_wikitext returned
    response_text,  \* extract_with_openai: the model's reply
    result,         \* main: outcome of extract_with_openai
    requested,      \* page titles sent to the Wikipedia API so far
    prompted,       \* country names sent to the LLM so far
    writes,         \* number of times the output document was written
    log             \* the per-country console lines, <<iso, outcome>>

vars == <<dry_run, country, api_key, disk, disk0, pc, error, countries, idx,
          metadata, success, failed, skipped, resp, firstStatus, callGets,
          sleeps, wikitext, response_text, result, requested, prompted,
          writes, log>>

\* ------------------------------------------------------------------ bounds

\* How many rows of the static table the model keeps.
NumCountries == 2

\* ------------------------------------------------------- the static table

REQUEST_DELAY == 1

DefaultRetryAfter == 60

\* Rows of COUNTRIES, in the order of the dict literal.
TableRows ==
    << [iso |-> "CZ", name |-> "Czech Republic", suffix |-> "the_Czech_Republic"],
       [iso |-> "DE", name |-> "Germany",        suffix |-> "Germany"],
       [iso |-> "GB", name |-> "United Kingdom", suffix |-> "the_United_Kingdom"],
       [iso |-> "IT", name |-> "Italy",          suffix |-> "Italy"] >>

COUNTRIES == SubSeq(TableRows, 1, NumCountries)

Codes == {COUNTRIES[i].iso : i \in 1..Len(COUNTRIES)}

Row(iso) == CHOOSE r \in {COUNTRIES[i] : i \in 1..Len(COUNTRIES)} : r.iso = iso

CodeOrder == [i \in 1..Len(COUNTRIES) |-> COUNTRIES[i].iso]

Title(article_suffix) == "Vehicle_registration_plates_of_" \o article_suffix

\* str.upper on the --country values the model draws.
Upper(s) ==
    CASE s = "de" -> "DE"
      [] s = "cz" -> "CZ"
      [] OTHER    -> s

\* --------------------------------------------------------- text primitives

\* The backtick character (the lexer rejects it inside a string literal).
BT == "BACKTICK"

NL == "\n"

SP == " "

Whitespace == {SP, NL}

Fence == <<BT, BT, BT>>

\* str.startswith
StartsWith(s, p) == Len(s) >= Len(p) /\ SubSeq(s, 1, Len(p)) = p

\* str.endswith
EndsWith(s, p) == Len(s) >= Len(p) /\ SubSeq(s, Len(s) - Len(p) + 1, Len(s)) = p

\* str.strip(): drop leading and trailing whitespace.
Strip(s) ==
    LET keep == {i \in 1..Len(s) : s[i] \notin Whitespace}
    IN  IF keep = {} THEN <<>>
        ELSE LET lo == CHOOSE i \in keep : \A j \in keep : i <= j
                 hi == CHOOSE i \in keep : \A j \in keep : j <= i
             IN  SubSeq(s, lo, hi)

\* s.split("\n", 1): the parts before and after the first line break, or the
\* one-element list [s] when s has no line break.
SplitFirstNewline(s) ==
    LET at == {i \in 1..Len(s) : s[i] = NL}
    IN  IF at = {} THEN <<s>>
        ELSE LET k == CHOOSE i \in at : \A j \in at : i <= j
             IN  <<SubSeq(s, 1, k - 1), SubSeq(s, k + 1, Len(s))>>

\* ------------------------------------------------------------ json.loads

\* A member token stands for one "key": value pair of a JSON object.
MemberKey(t) ==
    CASE t = "f" -> "format_pattern"
      [] t = "g" -> "format_pattern"
      [] t = "i" -> "iso"
      [] t = "c" -> "country_name"
      [] t = "w" -> "wikipedia_article"
      [] t = "e" -> "extracted_at"

MemberVal(t) ==
    CASE t = "f" -> "LL-NNNN"
      [] t = "g" -> "LLL NNN"
      [] t = "i" -> "XX"
      [] t = "c" -> "Wrong name"
      [] t = "w" -> "Some_other_article"
      [] t = "e" -> "null"

MemberTokens == {"f", "g", "i", "c", "w", "e"}

EmptyFields == [k \in {} |-> ""]

JsonNull == [kind |-> "null", fields |-> EmptyFields, len |-> 0]

JsonList(n) == [kind |-> "list", fields |-> EmptyFields, len |-> n]

JsonDict(members) ==
    LET keys == {MemberKey(members[i]) : i \in 1..Len(members)}
        last(k) == CHOOSE i \in 1..Len(members) :
                      /\ MemberKey(members[i]) = k
                      /\ \A j \in 1..Len(members) : MemberKey(members[j]) = k => j <= i
    IN  [kind |-> "dict",
         fields |-> [k \in keys |-> MemberVal(members[last(k)])],
         len |-> Cardinality(keys)]

\* json.loads: whitespace between tokens is ignored; the text must be null,
\* an array of nulls or an object of members.  Anything else (an empty text,
\* a stray backtick, a language tag, prose) raises JSONDecodeError.
JsonLoads(s) ==
    LET t == SelectSeq(s, LAMBDA ch : ch \notin Whitespace)
        inner == SubSeq(t, 2, Len(t) - 1)
    IN  CASE t = <<"n">> ->
               [status |-> "ok", value |-> JsonNull]
          [] Len(t) >= 2 /\ t[1] = "[" /\ t[Len(t)] = "]"
                /\ \A i \in 1..Len(inner) : inner[i] = "n" ->
               [status |-> "ok", value |-> JsonList(Len(inner))]
          [] Len(t) >= 2 /\ t[1] = "{" /\ t[Len(t)] = "}"
                /\ \A i \in 1..Len(inner) : inner[i] \in MemberTokens ->
               [status |-> "ok", value |-> JsonDict(inner)]
          [] OTHER ->
               [status |-> "JSONDecodeError", value |-> JsonNull]

\* Python truthiness of a parsed value: None, [] and {} are falsy.
Truthy(v) == v.kind /= "null" /\ v.len > 0

\* ------------------------------------------------- extract_with_openai

Raised(exc) == [status |-> exc, value |-> JsonNull]

\* Lines 157-166: strip the reply, strip a code fence if the reply starts
\* with one, parse what is left.
ParseReply(content) ==
    LET stripped == Strip(content)
    IN  IF StartsWith(stripped, Fence)
        THEN LET parts == SplitFirstNewline(stripped)
             IN  IF Len(parts) < 2 THEN Raised("IndexError")
                 ELSE LET rest == parts[2]
                          cut  == IF EndsWith(rest, Fence)
                                  THEN SubSeq(rest, 1, Len(rest) - 3)
                                  ELSE rest
                      IN  JsonLoads(Strip(cut))
        ELSE JsonLoads(stripped)

\* The JSON texts a reply may carry.
JsonTexts ==
    { <<"{", "f", "}">>,
      <<"{", NL, "g", NL, "i", "c", "w", "e", NL, "}">>,
      <<"{", "}">>,
      <<"n">>,
      <<"[", "n", "]">> }

\* The ways a reply wraps a JSON text in a fence: language tag or not, and a
\* line break, a space or nothing between the fences and the text.
Wrappers ==
    [tag : {<<>>, <<"j">>}, open : {<<>>, <<NL>>, <<SP>>}, close : {<<>>, <<NL>>}]

Wrap(j, w) == Fence \o w.tag \o w.open \o j \o w.close \o Fence

\* Replies that are not JSON at all.
ProseReplies == { <<>>, <<"x">>, Fence, Fence \o <<NL>> \o Fence }

Replies ==
    JsonTexts \cup {Wrap(j, w) : j \in JsonTexts, w \in Wrappers} \cup ProseReplies

\* ------------------------------------------------------ HTTP responses

\* int(str) on a header value: an optional sign followed by decimal digits.
DigitVal(ch) ==
    CASE ch = "0" -> 0 [] ch = "1" -> 1 [] ch = "2" -> 2 [] ch = "3" -> 3
      [] ch = "4" -> 4 [] ch = "5" -> 5 [] ch = "6" -> 6 [] ch = "7" -> 7
      [] ch = "8" -> 8 [] ch = "9" -> 9

DigitChars == {"0", "1", "2", "3", "4", "5", "6", "7", "8", "9"}

Unsigned(s) == IF s /= <<>> /\ s[1] \in {"-", "+"} THEN Tail(s) ELSE s

IsIntText(s) ==
    LET t == Strip(s)
    IN  /\ Unsigned(t) /= <<>>
        /\ \A i \in 1..Len(Unsigned(t)) : Unsigned(t)[i] \in DigitChars

RECURSIVE DigitsValue(_)
DigitsValue(s) ==
    IF s = <<>> THEN 0
    ELSE 10 * DigitsValue(SubSeq(s, 1, Len(s) - 1)) + DigitVal(s[Len(s)])

IntOf(s) ==
    LET t == Strip(s)
    IN  IF t[1] = "-" THEN 0 - DigitsValue(Unsigned(t)) ELSE DigitsValue(Unsigned(t))

NoHeader == [present |-> FALSE, text |-> <<>>]

\* Retry-After as a server may send it: absent, delay-seconds, or an
\* HTTP-date; a negative number stands for any value time.sleep rejects.
RetryHeaders ==
    { NoHeader,
      [present |-> TRUE, text |-> <<"3", "0">>],
      [present |-> TRUE, text |-> <<"-", "5">>],
      [present |-> TRUE, text |-> <<"W", "e", "d", ",", SP, "2", "1">>] }

NoResp == [status_code |-> 0, retry_after |-> NoHeader, body |-> "none"]

\* What one session.get can return: 200 with a parse result, an API error
\* object, a JSON object without the wikitext or a body that is not JSON;
\* 429 with any Retry-After; another non-success status.
Responses ==
    {[status_code |-> 200, retry_after |-> NoHeader, body |-> b] :
        b \in {"wikitext", "error", "no_wikitext", "not_json"}}
    \cup {[status_code |-> 429, retry_after |-> h, body |-> "none"] : h \in RetryHeaders}
    \cup {[status_code |-> 500, retry_after |-> NoHeader, body |-> "none"]}

\* ------------------------------------------------------ the document

NoResult == [status |-> "unset", value |-> JsonNull]

EmptyEntries == [k \in {} |-> EmptyFields]

ProvenanceFields == {"country_name", "iso", "wikipedia_article", "extracted_at"}

\* An entry written by an earlier run, or by hand, under key k.
OldEntry(k) ==
    [f \in ProvenanceFields \cup {"format_pattern"} |->
        CASE f = "iso"               -> k
          [] f = "country_name"      -> "Earlier name"
          [] f = "wikipedia_article" -> "Earlier_article"
          [] f = "extracted_at"      -> "earlier"
          [] f = "format_pattern"    -> "OLD"]

\* A key of an earlier document that is not in the modelled table.
ForeignCode == "US"

Document(ts, entries) == [exists |-> TRUE, generated_at |-> ts, entries |-> entries]

NoDocument == [exists |-> FALSE, generated_at |-> "", entries |-> EmptyEntries]

InitialDisks ==
    {NoDocument} \cup
    {Document("earlier", [k \in S |-> OldEntry(k)]) : S \in SUBSET (Codes \cup {ForeignCode})}

\* --country as the user may give it.
CountryArgs == {"None", "DE", "de", "CZ", "ZZ"}

\* Lines 258-261: the provenance fields main sets on the parsed dict.
\* (Variant: the fields are set only when the reply did not give them.)
WithProvenance_replyWins(fields, iso) ==
    [f \in DOMAIN fields \cup ProvenanceFields |->
        IF f \in DOMAIN fields THEN fields[f]
        ELSE CASE f = "country_name"      -> Row(iso).name
               [] f = "iso"               -> iso
               [] f = "wikipedia_article" -> Title(Row(iso).suffix)
               [] f = "extracted_at"      -> "now"]

WithProvenance(fields, iso) ==
    [f \in DOMAIN fields \cup ProvenanceFields |->
        CASE f = "country_name"      -> Row(iso).name
          [] f = "iso"               -> iso
          [] f = "wikipedia_article" -> Title(Row(iso).suffix)
          [] f = "extracted_at"      -> "now"
          [] OTHER                   -> fields[f]]

\* dict item assignment: metadata["entries"][iso] = result
Put(entries, iso, e) ==
    [k \in DOMAIN entries \cup {iso} |-> IF k = iso THEN e ELSE entries[k]]

\* json.dump(metadata, f) after metadata["generated_at"] = now
Dump(doc) == Document("now", doc.entries)

\* Lines 190-191: mkdir(parents=True, exist_ok=True) creates the directory
\* and leaves a document that is already there as it is.
\* (Variant: start-up opens the document for writing, emptying it.)
MakeDirs_truncates(d) == Document("now", EmptyEntries)

MakeDirs(d) == d

\* Lines 267-269: the document on disk after the write that follows a
\* successful extraction.
\* (Variant: the entry is stored in memory only.)
IncrementalWrite_dropped(doc) == disk

IncrementalWrite(doc) == Dump(doc)

\* Line 281: the final write is skipped in a dry run.
\* (Variant: the guard is missing.)
WritesAtEnd_always == TRUE

WritesAtEnd == ~dry_run

\* Line 231: skip a country already in the entries, unless --country is given.
\* (Variant: every selected country is processed again.)
ShouldSkip_never(iso) == FALSE

ShouldSkip(iso) == iso \in DOMAIN metadata.entries /\ country = "None"

\* success += 1, failed += 1, skipped += 1
\* (Variant: a branch forgets its counter.)
Inc_forgotten(n) == n

Inc(n) == n + 1

\* ------------------------------------------------------------- Init

Init ==
    /\ dry_run \in BOOLEAN
    /\ country \in CountryArgs
    /\ api_key \in BOOLEAN
    /\ disk \in InitialDisks
    /\ disk0 = disk
    /\ pc = "start"
    /\ error = "none"
    /\ countries = <<>>
    /\ idx = 0
    /\ metadata = NoDocument
    /\ success = 0 /\ failed = 0 /\ skipped = 0
    /\ resp = NoResp /\ firstStatus = 0 /\ callGets = 0 /\ sleeps = <<>>
    /\ wikitext = "unset"
    /\ response_text = <<>>
    /\ result = NoResult
    /\ requested = {} /\ prompted = {} /\ writes = 0
    /\ log = <<>>

argv == <<dry_run, country, api_key, disk0>>

counters == <<success, failed, skipped>>

fetchLocals == <<resp, firstStatus, callGets, sleeps>>

effects == <<requested, prompted, writes>>

\* An exception nobody catches ends main where it is.
Crash(exc) == pc' = "crashed" /\ error' = exc

\* ------------------------------------------------------------- main

\* Lines 184-223: credential check, country selection, load.
Startup ==
    /\ pc = "start"
    /\ IF ~api_key /\ ~dry_run
       THEN /\ pc' = "aborted" /\ error' = "no_api_key"
            /\ UNCHANGED <<countries, idx, metadata, disk>>
       ELSE IF country /= "None" /\ Upper(country) \notin Codes
       THEN /\ pc' = "aborted" /\ error' = "unknown_country"
            /\ disk' = MakeDirs(disk)
            /\ UNCHANGED <<countries, idx, metadata>>
       ELSE /\ disk' = MakeDirs(disk)
            /\ countries' = IF country /= "None" THEN <<Upper(country)>> ELSE CodeOrder
            /\ metadata' = [exists |-> TRUE, generated_at |-> "now",
                            entries |-> IF disk.exists /\ country = "None"
                                        THEN disk.entries ELSE EmptyEntries]
            /\ idx' = 1
            /\ pc' = "loop" /\ error' = "none"
    /\ UNCHANGED <<argv, counters, fetchLocals, wikitext, response_text,
                   result, effects, log>>

\* Lines 229-236: take the next country; skip it when already collected.
LoopHead ==
    /\ pc = "loop"
    /\ idx <= Len(countries)
    /\ LET iso == countries[idx]
       IN  IF ShouldSkip(iso)
           THEN /\ skipped' = Inc(skipped)
                /\ idx' = idx + 1
                /\ log' = Append(log, <<iso, "skipped">>)
                /\ pc' = "loop"
           ELSE /\ pc' = "fetch"
                /\ UNCHANGED <<skipped, idx, log>>
    /\ UNCHANGED <<argv, disk, error, countries, metadata, success, failed,
                   fetchLocals, wikitext, response_text, result, effects>>

\* Lines 280-284: after the loop, write the document unless dry-run.
FinalWrite ==
    /\ pc = "loop"
    /\ idx > Len(countries)
    /\ IF WritesAtEnd
       THEN /\ metadata' = [metadata EXCEPT !.generated_at = "now"]
            /\ disk' = Dump(metadata)
            /\ writes' = writes + 1
       ELSE UNCHANGED <<metadata, disk, writes>>
    /\ pc' = "done"
    /\ UNCHANGED <<argv, error, countries, idx, counters, fetchLocals, wikitext,
                   response_text, result, requested, prompted, log>>

\* ------------------------------------------- fetch_article_wikitext

\* Lines 118-126 (called at line 240): the fixed delay, then the first GET.
FetchFirst ==
    /\ pc = "fetch"
    /\ sleeps' = <<REQUEST_DELAY>>
    /\ \E r \in Responses : resp' = r /\ firstStatus' = r.status_code
    /\ callGets' = 1
    /\ requested' = requested \cup {Title(Row(countries[idx]).suffix)}
    /\ pc' = "fetch_resp"
    /\ UNCHANGED <<argv, disk, error, countries, idx, metadata, counters,
                   wikitext, response_text, result, prompted, writes, log>>

\* Lines 127-131: on 429 read Retry-After (60 when absent), sleep, GET again.
\* int() raises ValueError on a value that is not an integer and time.sleep
\* raises ValueError on a negative one; neither is caught.
FetchRetry ==
    /\ pc = "fetch_resp"
    /\ IF resp.status_code = 429
       THEN LET h == resp.retry_after
            IN  IF h.present /\ ~IsIntText(h.text)
                THEN /\ Crash("ValueError")
                     /\ UNCHANGED <<fetchLocals, requested>>
                ELSE LET wait == IF h.present THEN IntOf(h.text) ELSE DefaultRetryAfter
                     IN  IF wait < 0
                         THEN /\ Crash("ValueError")
                              /\ UNCHANGED <<fetchLocals, requested>>
                         ELSE /\ sleeps' = Append(sleeps, wait)
                              /\ \E r \in Responses : resp' = r
                              /\ callGets' = callGets + 1
                              /\ requested' =
                                    requested \cup {Title(Row(countries[idx]).suffix)}
                              /\ pc' = "fetch_return"
                              /\ UNCHANGED <<firstStatus, error>>
       ELSE /\ pc' = "fetch_return"
            /\ UNCHANGED <<fetchLocals, requested, error>>
    /\ UNCHANGED <<argv, disk, countries, idx, metadata, counters, wikitext,
                   response_text, result, prompted, writes, log>>

\* Lines 132-136: raise_for_status, decode the body, return the wikitext or
\* None.  The exceptions propagate through main, which does not catch them.
FetchReturn ==
    /\ pc = "fetch_return"
    /\ IF resp.status_code >= 400
       THEN /\ Crash("HTTPError")
            /\ UNCHANGED <<fetchLocals, wikitext>>
       ELSE IF resp.body = "not_json"
       THEN /\ Crash("JSONDecodeError")
            /\ UNCHANGED <<fetchLocals, wikitext>>
       ELSE /\ wikitext' = IF resp.body = "wikitext" THEN "text" ELSE "None"
            /\ resp' = NoResp /\ firstStatus' = 0 /\ callGets' = 0 /\ sleeps' = <<>>
            /\ pc' = "fetched"
            /\ UNCHANGED error
    /\ UNCHANGED <<argv, disk, countries, idx, metadata, counters,
                   response_text, result, effects, log>>

\* Lines 242-251: a missing article fails the country; a dry run stops here.
AfterFetch ==
    /\ pc = "fetched"
    /\ LET iso == countries[idx]
       IN  IF wikitext = "None"
           THEN /\ failed' = Inc(failed)
                /\ idx' = idx + 1
                /\ log' = Append(log, <<iso, "not_found">>)
                /\ pc' = "loop"
                /\ UNCHANGED success
           ELSE IF dry_run
           THEN /\ success' = Inc(success)
                /\ idx' = idx + 1
                /\ log' = Append(log, <<iso, "fetched">>)
                /\ pc' = "loop"
                /\ UNCHANGED failed
           ELSE /\ pc' = "extract"
                /\ UNCHANGED <<success, failed, idx, log>>
    /\ wikitext' = "unset"
    /\ UNCHANGED <<argv, disk, error, countries, metadata, skipped, fetchLocals,
                   response_text, result, effects>>

\* ---------------------------------------------- extract_with_openai

\* Lines 146-157 (called at line 256): the completion request.  The API
\* raises openai.APIError, or returns a message whose content is a text or
\* None (None.strip() raises AttributeError).
CallModel ==
    /\ pc = "extract"
    /\ prompted' = prompted \cup {Row(countries[idx]).name}
    /\ \/ /\ result' = Raised("APIError")
          /\ pc' = "handle"
          /\ UNCHANGED response_text
       \/ /\ result' = Raised("AttributeError")
          /\ pc' = "handle"
          /\ UNCHANGED response_text
       \/ /\ \E r \in Replies : response_text' = r
          /\ pc' = "parse"
          /\ UNCHANGED result
    /\ UNCHANGED <<argv, disk, error, countries, idx, metadata, counters,
                   fetchLocals, wikitext, requested, writes, log>>

\* Lines 157-166: strip the fence and parse; the outcome returns to main.
ExtractReturn ==
    /\ pc = "parse"
    /\ result' = ParseReply(response_text)
    /\ pc' = "handle"
    /\ UNCHANGED <<argv, disk, error, countries, idx, metadata, counters,
                   fetchLocals, wikitext, response_text, effects, log>>

\* Lines 257-278: store and write a truthy result, count a falsy one, a
\* JSONDecodeError or an APIError as failed.  Any other exception, and the
\* TypeError of assigning a string key on a list, is not caught.
HandleResult ==
    /\ pc = "handle"
    /\ LET iso == countries[idx]
           fail(why) ==
               /\ failed' = Inc(failed)
               /\ idx' = idx + 1
               /\ log' = Append(log, <<iso, why>>)
               /\ pc' = "loop"
               /\ response_text' = <<>> /\ result' = NoResult
               /\ UNCHANGED <<success, metadata, disk, writes, error>>
           crash(exc) ==
               /\ Crash(exc)
               /\ UNCHANGED <<success, failed, idx, log, metadata, disk, writes,
                              response_text, result>>
       IN  CASE result.status = "ok" /\ Truthy(result.value) /\ result.value.kind = "dict" ->
                  LET stored == [metadata EXCEPT
                                    !.entries = Put(@, iso, WithProvenance(result.value.fields, iso)),
                                    !.generated_at = "now"]
                  IN  /\ metadata' = stored
                      /\ disk' = IncrementalWrite(stored)
                      /\ writes' = writes + 1
                      /\ success' = Inc(success)
                      /\ idx' = idx + 1
                      /\ log' = Append(log, <<iso, "extracted">>)
                      /\ pc' = "loop"
                      /\ response_text' = <<>> /\ result' = NoResult
                      /\ UNCHANGED <<failed, error>>
             [] result.status = "ok" /\ Truthy(result.value) /\ result.value.kind /= "dict" ->
                  crash("TypeError")
             [] result.status = "ok" /\ ~Truthy(result.value) -> fail("no_result")
             [] result.status = "JSONDecodeError" -> fail("parse_failed")
             [] result.status = "APIError" -> fail("api_error")
             [] OTHER -> crash(result.status)
    /\ UNCHANGED <<argv, countries, skipped, fetchLocals, wikitext, requested, prompted>>

Next ==
    \/ Startup
    \/ LoopHead
    \/ FetchFirst
    \/ FetchRetry
    \/ FetchReturn
    \/ AfterFetch
    \/ CallModel
    \/ ExtractReturn
    \/ HandleResult
    \/ FinalWrite

Spec == Init /\ [][Next]_vars

\* ----------------------------------------------------------- properties

Logged(outcome) == {i \in 1..Len(log) : log[i][2] = outcome}

ExtractedCodes == {log[i][1] : i \in Logged("extracted")}

CountrySelectable == country = "None" \/ Upper(country) \in Codes

\* C1: a non-dry run with --country C leaves every on-disk entry other than
\* C's as it was when the run ends, whether C succeeded or failed.
C1_OtherEntriesUntouched ==
    (~dry_run /\ country /= "None" /\ pc \in {"done", "crashed"}) =>
        \A k \in DOMAIN disk0.entries \ {Upper(country)} :
            k \in DOMAIN disk.entries /\ disk.entries[k] = disk0.entries[k]

\* C2: without --country, a code present in the loaded document is skipped
\* with no fetch and no extraction call, and its entry in memory and on disk
\* stays equal to the loaded one throughout the run.
C2_ExistingNeverOverwritten ==
    (country = "None") =>
        \A k \in DOMAIN disk0.entries :
            /\ k \in DOMAIN disk.entries /\ disk.entries[k] = disk0.entries[k]
            /\ pc \notin {"start", "aborted"} =>
                  k \in DOMAIN metadata.entries /\ metadata.entries[k] = disk0.entries[k]
            /\ k \in Codes =>
                  /\ Title(Row(k).suffix) \notin requested
                  /\ Row(k).name \notin prompted
                  /\ \A i \in 1..Len(log) : log[i][1] = k => log[i][2] = "skipped"
                  /\ pc = "done" => \E i \in 1..Len(log) : log[i] = <<k, "skipped">>

C2_Witness ==
    /\ country = "None" /\ ~dry_run /\ pc = "done"
    /\ "DE" \in DOMAIN disk0.entries
    /\ log = << <<"CZ", "extracted">>, <<"DE", "skipped">> >> \o SubSeq(log, 3, Len(log))
    /\ disk.entries["DE"] = OldEntry("DE")

\* C3: in a batch run no country's failure stops the loop: main never ends
\* on an exception, every failure being counted and the loop advancing.
C3_FailuresIsolated ==
    (country = "None") => pc /= "crashed"

\* C4: a dry run does not need the credential (it aborts only on an unknown
\* --country), never calls the model and never writes the document.
C4_DryRunFetchOnly ==
    dry_run =>
        /\ prompted = {}
        /\ writes = 0
        /\ disk = disk0
        /\ error /= "no_api_key"
        /\ (pc /= "start" /\ CountrySelectable) => pc /= "aborted"

C4_Witness ==
    /\ dry_run /\ ~api_key /\ pc = "done"
    /\ disk0.exists
    /\ success >= 1
    /\ requested /= {}

\* C5: a run that aborts at start-up (credential missing in a non-dry run,
\* or --country not in the table after upper-casing) has made no HTTP
\* request, no LLM call and no write; and those are the runs that abort.
C5_AbortHasNoEffects ==
    /\ pc = "aborted" =>
          requested = {} /\ prompted = {} /\ writes = 0 /\ disk = disk0
    /\ pc /= "start" =>
          (pc = "aborted" <=> ((~api_key /\ ~dry_run) \/ ~CountrySelectable))

C5_Witness ==
    /\ pc = "aborted" /\ error = "unknown_country"
    /\ country = "ZZ" /\ api_key /\ ~dry_run
    /\ disk0.exists /\ DOMAIN disk0.entries /= {}

\* C6: one call of fetch_article_wikitext issues at most two GETs, the
\* second if and only if the first response was a 429, after sleeping the
\* Retry-After duration (60 when absent).
C6_RetryIffRateLimited ==
    (pc = "fetch_return" \/ (pc = "crashed" /\ callGets > 0)) =>
        /\ callGets <= 2
        /\ callGets = 2 <=> firstStatus = 429
        /\ callGets = 2 => Len(sleeps) = 2

\* C7: a reply that wraps a JSON text in a code fence (with or without a
\* language tag and line breaks) gives the same result as the bare text.
C7_FenceTransparent ==
    \A j \in JsonTexts, w \in Wrappers :
        (pc = "handle" /\ response_text = Wrap(j, w)) => result = ParseReply(j)

\* C8: every entry stored in this run under key K has iso K, the table's
\* display name, the article title built from K's suffix and a non-null
\* extracted_at, whatever the reply gave for those fields.
C8_ProvenanceFields ==
    \A K \in ExtractedCodes :
        /\ K \in DOMAIN metadata.entries /\ K \in DOMAIN disk.entries
        /\ \A e \in {metadata.entries[K], disk.entries[K]} :
              /\ ProvenanceFields \subseteq DOMAIN e
              /\ e["iso"] = K
              /\ \E i \in 1..Len(TableRows) :
                    /\ TableRows[i].iso = K
                    /\ e["country_name"] = TableRows[i].name
                    /\ e["wikipedia_article"] =
                          "Vehicle_registration_plates_of_" \o TableRows[i].suffix
              /\ e["extracted_at"] /= "null"

\* The reply with format "LLL NNN" is the one that also gave its own iso,
\* country_name, wikipedia_article and a null extracted_at.
C8_Witness ==
    /\ "CZ" \in ExtractedCodes
    /\ disk.entries["CZ"]["format_pattern"] = "LLL NNN"
    /\ disk.entries["CZ"]["country_name"] = "Czech Republic"
    /\ disk.entries["CZ"]["wikipedia_article"] = "Vehicle_registration_plates_of_the_Czech_Republic"

\* C9: in a non-dry run every entry extracted so far is in the on-disk
\* document at every point after its extraction (so at every loop boundary
\* and end of the run); one write per success and one more after the loop.
C9_WrittenAfterEachSuccess ==
    ~dry_run =>
        /\ \A K \in ExtractedCodes :
              /\ K \in DOMAIN disk.entries /\ K \in DOMAIN metadata.entries
              /\ disk.entries[K] = metadata.entries[K]
        /\ writes = success + (IF pc = "done" THEN 1 ELSE 0)
        /\ pc = "done" => disk.exists /\ disk.entries = metadata.entries

C9_Witness ==
    /\ ~dry_run /\ pc = "loop" /\ idx = 2 /\ idx <= Len(countries)
    /\ log = << <<"CZ", "extracted">> >>
    /\ writes = 1
    /\ "CZ" \in DOMAIN disk.entries /\ "CZ" \notin DOMAIN disk0.entries

\* C10: at every loop boundary success + failed + skipped is the number of
\* countries visited so far, one counter per visited country; at the end it
\* is the number of selected countries; skipped is 0 with --country.
C10_CountersAddUp ==
    /\ pc \notin {"start", "aborted", "crashed"} =>
          /\ success + failed + skipped = idx - 1
          /\ success + failed + skipped = Len(log)
          /\ \A i \in 1..Len(log) : log[i][1] = countries[i]
          /\ skipped = Cardinality(Logged("skipped"))
          /\ success = Cardinality(Logged("extracted") \cup Logged("fetched"))
          /\ failed = Cardinality(Logged("not_found") \cup Logged("no_result")
                                  \cup Logged("parse_failed") \cup Logged("api_error"))
    /\ pc = "done" =>
          success + failed + skipped =
              (IF country = "None" THEN Len(COUNTRIES) ELSE 1)
    /\ country /= "None" => skipped = 0

C10_Witness ==
    /\ pc = "done" /\ country = "None"
    /\ success >= 1 /\ skipped >= 1
    /\ success + failed + skipped = NumCountries

====
